---------------------------- MODULE Spec2Model ----------------------------
(***************************************************************************)
(* A model of the esdb event store: the open stream file (package stream,  *)
(* src/cluster/rotate_command.go lines 105-345) and the DB / stream        *)
(* manager that rotates stream files and serves cross-file reads (package  *)
(* cluster, src/cmd/esdb-reader.go lines 161-593).                         *)
(*                                                                         *)
(* A stream file is a header followed by a sequence of records.  Every     *)
(* record has a byte size, so the byte offset of a record is the header    *)
(* length plus the sizes of the records before it.  The sizes are an       *)
(* abstraction of the varint encoding: an event grows with the number of   *)
(* index labels it carries.                                                *)
(***************************************************************************)
EXTENDS Integers, Sequences, FiniteSets, TLC

\* ------------------------------------------------------------------ bounds

\* Commits (file names) range over 1..MaxCommit; 0 is the code's "no commit".
MaxCommit == 3
\* Events accepted by Write over a whole run.
MaxEvents == 2
\* A scanner stops on its limit-th event, limit in 1..MaxLimit, or never.
MaxLimit == 2
\* Events written to the stand-alone open stream.
MaxLen == 3
\* The block size of the block reader, and the most blocks a file holds.
blockSize == 2
MaxBlocks == 2

\* ------------------------------------------------------- program constants

\* len(MAGIC_HEADER): the write position of a freshly created stream.
HeaderLen == 10
\* len(MAGIC_FOOTER).
FooterLen == 10
\* DEFAULT_SNAPSHOT_BUFFER
SnapshotBuffer == 500
\* db.mockoffset = 10
MockOffset == 10

Commits == 1..MaxCommit

\* The events a caller writes: body, index labels and timestamp.
Bodies == {"a", "b", "c"}
Labels == {"u:1", "t:x"}

IndexesOf(body) ==
  CASE body = "a" -> {"u:1"}
    [] body = "b" -> {"u:1", "t:x"}
    [] body = "c" -> {"t:x"}
    [] OTHER -> {}

TimestampOf(body) ==
  CASE body = "a" -> 100
    [] body = "b" -> 200
    [] OTHER -> 150

\* ----------------------------------------------------------------- helpers

RECURSIVE SumSizes(_)
SumSizes(rs) == IF rs = <<>> THEN 0 ELSE Head(rs).size + SumSizes(Tail(rs))

RECURSIVE Reverse(_)
Reverse(sq) == IF sq = <<>> THEN <<>> ELSE Reverse(Tail(sq)) \o <<Head(sq)>>

RECURSIVE SelectEvents(_)
\* The event records of a record sequence, in file order.
SelectEvents(rs) ==
  IF rs = <<>> THEN <<>>
  ELSE IF Head(rs).k = "ev" THEN <<Head(rs)>> \o SelectEvents(Tail(rs))
  ELSE SelectEvents(Tail(rs))

RECURSIVE DataOf(_)
DataOf(evs) == IF evs = <<>> THEN <<>> ELSE <<Head(evs).data>> \o DataOf(Tail(evs))

NoOffsets == [x \in {} |-> 0]

\* ------------------------------------------------------------ file records

\* [Uvarint:length][offsets table][data]: the encoded length of an event.
EventLength(offsets) == 3 + 2 * Cardinality(DOMAIN offsets)

newEvent(data, offsets) ==
  [k |-> "ev", data |-> data, offsets |-> offsets, size |-> EventLength(offsets)]

\* binary.WriteInt32(s.stream, 0): the nil event that ends the events.
NilRec == [k |-> "nil", data |-> "", offsets |-> NoOffsets, size |-> 4]

\* The SST mapping every index label to its tail offset.
SstRec(tails) ==
  [k |-> "sst", data |-> "", offsets |-> tails,
   size |-> 1 + 2 * Cardinality(DOMAIN tails)]

\* int64 SST length followed by MAGIC_FOOTER.
FootRec == [k |-> "foot", data |-> "", offsets |-> NoOffsets, size |-> 8 + FooterLen]

\* Bytes of an overwritten or torn record that no longer decode.
JunkRec(n) == [k |-> "junk", data |-> "", offsets |-> NoOffsets, size |-> n]

\* Byte offset of record i of a file (i = Len(rs) + 1: the end of the file).
Off(rs, i) == HeaderLen + SumSizes(SubSeq(rs, 1, i - 1))

FileLen(rs) == Off(rs, Len(rs) + 1)

\* The index of the record that starts at byte offset off, 0 if none does.
RecAt(rs, off) ==
  IF \E i \in 1..Len(rs) : Off(rs, i) = off
  THEN CHOOSE i \in 1..Len(rs) : Off(rs, i) = off
  ELSE 0

\* io.Writer.Write at file position pos: the bytes written replace what was
\* there, the file grows if they reach past its end, and what is left of a
\* partly overwritten record, or of records behind the written bytes, stays.
WriteAt(rs, pos, new) ==
  LET n == SumSizes(new)
      keepN == Cardinality({i \in 1..Len(rs) : Off(rs, i + 1) <= pos})
      keep == SubSeq(rs, 1, keepN)
      head == IF Off(rs, keepN + 1) < pos
              THEN <<JunkRec(pos - Off(rs, keepN + 1))>> ELSE <<>>
      \* records that start at or after the end of the written bytes survive
      restN == Cardinality({i \in 1..Len(rs) : Off(rs, i) >= pos + n})
      rest == SubSeq(rs, Len(rs) - restN + 1, Len(rs))
      restStart == IF restN = 0 THEN FileLen(rs) ELSE Off(rs, Len(rs) - restN + 1)
      gap == IF restStart > pos + n /\ FileLen(rs) > pos + n
             THEN <<JunkRec(restStart - (pos + n))>> ELSE <<>>
  IN keep \o head \o new \o gap \o rest

\* pullEvent at byte offset off: an event, the end of the events (the nil
\* event or the end of the file), or bytes that do not decode.
pullEvent(rs, off) ==
  LET i == RecAt(rs, off)
  IN IF off >= FileLen(rs) THEN [res |-> "eof", i |-> 0]
     ELSE IF i = 0 THEN [res |-> "corrupt", i |-> 0]
     ELSE IF rs[i].k = "ev" THEN [res |-> "ok", i |-> i]
     ELSE IF rs[i].k = "nil" THEN [res |-> "eof", i |-> i]
     ELSE [res |-> "corrupt", i |-> 0]


\* --------------------------------------------------- package stream: open

\* db.stream == nil
NilStream ==
  [some |-> FALSE, tails |-> NoOffsets, closed |-> FALSE,
   offset |-> 0, length |-> 0, pos |-> 0]

\* createOpenStream: seek to 0, write MAGIC_HEADER; the returned openStream
\* has no tails, offset == len(MAGIC_HEADER), and the file position behind
\* the header.
createOpenStream ==
  [some |-> TRUE, tails |-> NoOffsets, closed |-> FALSE,
   offset |-> HeaderLen, length |-> 0, pos |-> HeaderLen]

\* The back-pointers of a new event: for each index the current tail, 0 if
\* the index has none yet.
BackOffsets(tails, indexes) ==
  [i \in indexes |-> IF i \in DOMAIN tails THEN tails[i] ELSE 0]

\* Tails that stay on the first event of an index.
SetTailsKeepFirst(tails, indexes, offset) ==
  [i \in (DOMAIN tails) \cup indexes |-> IF i \in DOMAIN tails THEN tails[i] ELSE offset]

\* for _, index := range indexes { s.tails[index] = s.offset }
SetTails(tails, indexes, offset) ==
  [i \in (DOMAIN tails) \cup indexes |-> IF i \in indexes THEN offset ELSE tails[i]]

\* A Write that leaves s.offset where it was.
StreamWriteSameOffset(s, rs, data, indexes) ==
  IF s.closed THEN [s |-> s, rs |-> rs, err |-> TRUE]
  ELSE LET event == newEvent(data, BackOffsets(s.tails, indexes))
       IN [s |-> [s EXCEPT !.tails = SetTails(s.tails, indexes, s.offset),
                           !.length = s.length + 1,
                           !.pos = s.offset + event.size],
           rs |-> WriteAt(rs, s.offset, <<event>>),
           err |-> FALSE]

\* openStream.Write: rejects a closed stream; seeks to s.offset, writes the
\* event with its back-pointers, then moves the tails, offset and length.
StreamWrite(s, rs, data, indexes) ==
  IF s.closed THEN [s |-> s, rs |-> rs, err |-> TRUE]
  ELSE LET event == newEvent(data, BackOffsets(s.tails, indexes))
       IN [s |-> [s EXCEPT !.tails = SetTails(s.tails, indexes, s.offset),
                           !.offset = s.offset + event.size,
                           !.length = s.length + 1,
                           !.pos = s.offset + event.size],
           rs |-> WriteAt(rs, s.offset, <<event>>),
           err |-> FALSE]

RECURSIVE ChainFrom(_, _, _, _)
\* The loop of openStream.ScanIndex: while off > 0, seek to off, pull the
\* event, hand it to the scanner and follow its back-pointer.  fuel bounds
\* the hops (a chain of a well-formed file needs at most Len(rs)); a chain
\* that outlives it is reported as looping.
ChainFrom(rs, index, off, fuel) ==
  IF off <= 0 THEN [events |-> <<>>, err |-> FALSE, pos |-> -1, loops |-> FALSE]
  ELSE IF fuel = 0 THEN [events |-> <<>>, err |-> FALSE, pos |-> -1, loops |-> TRUE]
  ELSE LET p == pullEvent(rs, off)
       IN IF p.res # "ok"
          THEN [events |-> <<>>, err |-> TRUE, pos |-> off, loops |-> FALSE]
          ELSE LET e == rs[p.i]
                   nxt == IF index \in DOMAIN e.offsets THEN e.offsets[index] ELSE 0
                   r == ChainFrom(rs, index, nxt, fuel - 1)
               IN [events |-> <<e>> \o r.events, err |-> r.err,
                   pos |-> IF r.pos = -1 THEN off + e.size ELSE r.pos,
                   loops |-> r.loops]

\* openStream.ScanIndex(index, scanner): starts at s.tails[index] (0, and so
\* nothing to visit, when the index was never written).
ScanIndex(s, rs, index) ==
  ChainFrom(rs, index, IF index \in DOMAIN s.tails THEN s.tails[index] ELSE 0,
            Len(rs) + 1)

RECURSIVE IterateAll(_, _)
\* The loop of openStream.Iterate: pull events and hand each to the scanner
\* until a pull fails; the end of the events is no error.
IterateAll(rs, off) ==
  IF pullEvent(rs, off).res = "ok"
  THEN [IterateAll(rs, off + rs[pullEvent(rs, off).i].size) EXCEPT
          !.events = <<rs[pullEvent(rs, off).i]>> \o @]
  ELSE [events |-> <<>>, err |-> pullEvent(rs, off).res = "corrupt",
        pos |-> IF pullEvent(rs, off).i = 0 THEN off
                ELSE off + rs[pullEvent(rs, off).i].size]

\* openStream.Iterate(scanner): seek behind the header and iterate.
OpenIterate(rs) == IterateAll(rs, HeaderLen)

\* openStream.Close: the nil event, the SST of the tails, the SST length and
\* the footer are written at the file position, wherever it is; Closed()
\* becomes true.  A closed stream is left as it is.
StreamClose(s, rs) ==
  IF s.closed THEN [s |-> s, rs |-> rs]
  ELSE LET trailer == <<NilRec, SstRec(s.tails), FootRec>>
       IN [s |-> [s EXCEPT !.closed = TRUE, !.pos = s.pos + SumSizes(trailer)],
           rs |-> WriteAt(rs, s.pos, trailer)]

RECURSIVE scanFrom(_, _, _, _)
\* The loop of scan: pull events until one fails to decode or the file ends;
\* every event moves the tail of each of its indexes to its offset.
scanFrom(rs, offset, tails, length) ==
  IF pullEvent(rs, offset).res # "ok"
  THEN [tails |-> tails, offset |-> offset, length |-> length,
        res |-> pullEvent(rs, offset).res]
  ELSE scanFrom(rs, offset + rs[pullEvent(rs, offset).i].size,
                [i \in (DOMAIN tails) \cup DOMAIN rs[pullEvent(rs, offset).i].offsets |->
                   IF i \in DOMAIN rs[pullEvent(rs, offset).i].offsets
                   THEN offset ELSE tails[i]],
                length + 1)

\* A scan that reports an event that does not decode.
scanStrict(rs) ==
  [scanFrom(rs, HeaderLen, NoOffsets, 0) EXCEPT
     !.res = IF @ = "corrupt" THEN "error" ELSE "done"]

\* scan: the tails, offset and length of a file, read from its header on.
\* The end of the file and an event that does not decode both end the scan
\* without an error.
scan(rs) ==
  [scanFrom(rs, HeaderLen, NoOffsets, 0) EXCEPT !.res = "done"]

\* The stream a scan result makes.
ScannedStream(sc, rs) ==
  [some |-> TRUE, tails |-> sc.tails, closed |-> FALSE, offset |-> sc.offset,
   length |-> sc.length, pos |-> FileLen(rs)]

\* newOpenStream: seek to 0 and scan; the stream takes the tails, offset and
\* length the scan found.
newOpenStream(rs) == ScannedStream(scan(rs), rs)

\* ------------------------------------------- package stream: the read API
\* The DB reads its streams through Iterate(offset, scanner),
\* ScanIndex(name, value, offset, scanner), Event.Next and stream.Open, and
\* fetches missing files with RecoverStream.

\* A scanner that returns false (stop) on its limit-th event; limit 0 never
\* stops.  count is the number of events it was handed before this one.
ScannerStops(count, limit) == limit > 0 /\ count + 1 >= limit

RECURSIVE IterateFrom(_, _, _, _)
\* Stream.Iterate from byte offset off: events are handed to the scanner in
\* file order; when the scanner stops, the offset just past the event it
\* stopped on is returned; when the events end, 0 is returned.
IterateFrom(rs, off, count, limit) ==
  LET p == pullEvent(rs, off)
  IN IF p.res = "corrupt"
     THEN [events |-> <<>>, offset |-> 0, stopped |-> FALSE, err |-> TRUE, pos |-> off]
     ELSE IF p.res = "eof"
     THEN [events |-> <<>>, offset |-> 0, stopped |-> FALSE, err |-> FALSE,
           pos |-> IF p.i = 0 THEN off ELSE off + rs[p.i].size]
     ELSE LET e == rs[p.i]
          IN IF ScannerStops(count, limit)
             THEN [events |-> <<e>>, offset |-> off + e.size, stopped |-> TRUE,
                   err |-> FALSE, pos |-> off + e.size]
             ELSE LET r == IterateFrom(rs, off + e.size, count + 1, limit)
                  IN [r EXCEPT !.events = <<e>> \o r.events]

\* Stream.Iterate(offset, scanner): offset 0 is the start of the events.
StreamIterate(rs, offset, count, limit) ==
  IterateFrom(rs, IF offset <= 0 THEN HeaderLen ELSE offset, count, limit)

\* Event.Next(name, value): the event's back-pointer for the index.
EventNext(e, index) == IF index \in DOMAIN e.offsets THEN e.offsets[index] ELSE 0

RECURSIVE ScanFrom(_, _, _, _, _, _)
\* Stream.ScanIndex from byte offset off, together with DB.Scan's scanner
\* wrapper: next is the back-pointer of the last event handed over.
ScanFrom(rs, index, off, count, limit, fuel) ==
  IF off <= 0 \/ fuel = 0
  THEN [events |-> <<>>, next |-> -1, stopped |-> FALSE, err |-> FALSE, pos |-> -1]
  ELSE LET p == pullEvent(rs, off)
       IN IF p.res # "ok"
          THEN [events |-> <<>>, next |-> -1, stopped |-> FALSE, err |-> TRUE, pos |-> off]
          ELSE LET e == rs[p.i]
               IN IF ScannerStops(count, limit)
                  THEN [events |-> <<e>>, next |-> EventNext(e, index), stopped |-> TRUE,
                        err |-> FALSE, pos |-> off + e.size]
                  ELSE LET r == ScanFrom(rs, index, EventNext(e, index), count + 1,
                                         limit, fuel - 1)
                       IN [events |-> <<e>> \o r.events,
                           next |-> IF r.next = -1 THEN EventNext(e, index) ELSE r.next,
                           stopped |-> r.stopped, err |-> r.err,
                           pos |-> IF r.pos = -1 THEN off + e.size ELSE r.pos]

\* A file is closed when it ends with the footer.
IsClosedFile(rs) == Len(rs) > 0 /\ rs[Len(rs)].k = "foot"

\* The tails of a closed file: the SST in front of the footer.
SstTails(rs) ==
  IF Len(rs) > 1 /\ rs[Len(rs) - 1].k = "sst" THEN rs[Len(rs) - 1].offsets ELSE NoOffsets

\* Stream.ScanIndex(name, value, offset, scanner): offset 0 starts at the
\* tail of the index (tails of an open stream, the SST of a closed one).
StreamScanIndex(rs, tails, index, offset, count, limit) ==
  ScanFrom(rs, index,
           IF offset > 0 THEN offset
           ELSE IF index \in DOMAIN tails THEN tails[index] ELSE 0,
           count, limit, Len(rs) + 1)

\* RecoverStream asks a peer for the file; no peer is modelled, so it fails.
RecoverStreamFails == TRUE

\* ------------------------------------------------------ continuation cursor
\* A cursor is the string "<commit>:<offset>", modelled as its characters.

DigitChars == <<"0", "1", "2", "3", "4", "5", "6", "7", "8", "9">>

RECURSIVE Digits(_)
\* fmt.Sprint of a non-negative integer.
Digits(n) ==
  IF n < 10 THEN <<DigitChars[n + 1]>>
  ELSE Digits(n \div 10) \o <<DigitChars[(n % 10) + 1]>>

IsDigit(c) == \E d \in 1..10 : DigitChars[d] = c

DigitValue(c) == (CHOOSE d \in 1..10 : DigitChars[d] = c) - 1

RECURSIVE ParseDigits(_, _)
ParseDigits(cs, acc) ==
  IF cs = <<>> THEN acc ELSE ParseDigits(Tail(cs), 10 * acc + DigitValue(Head(cs)))

\* strconv.ParseUint / ParseInt with the error dropped: 0 unless the text is
\* a non-empty run of digits.
ParseNumber(cs) ==
  IF cs # <<>> /\ \A i \in 1..Len(cs) : IsDigit(cs[i]) THEN ParseDigits(cs, 0) ELSE 0

\* strings.SplitN(s, ":", 2)
SplitN2(cs) ==
  IF \E i \in 1..Len(cs) : cs[i] = ":"
  THEN LET i == CHOOSE j \in 1..Len(cs) :
                  cs[j] = ":" /\ \A h \in 1..(j - 1) : cs[h] # ":"
       IN <<SubSeq(cs, 1, i - 1), SubSeq(cs, i + 1, Len(cs))>>
  ELSE <<cs>>

buildContinuation(commit, offset) ==
  IF commit > 0 THEN Digits(commit) \o <<":">> \o Digits(offset) ELSE <<>>

\* DB.parseContinuation: the start of a read.  An empty cursor starts at
\* db.current, or for a forward read at db.closed[0] when there is one.
parseContinuation(d, continuation, reverse) ==
  LET start == IF ~reverse /\ Len(d.closed) > 0 THEN d.closed[1] ELSE d.current
      parts == SplitN2(continuation)
  IN IF continuation # <<>> /\ Len(parts) = 2
     THEN [commit |-> ParseNumber(parts[1]), offset |-> ParseNumber(parts[2])]
     ELSE [commit |-> start, offset |-> 0]

\* ------------------------------------------------------------ package cluster

NoFile == [exists |-> FALSE, recs |-> <<>>]
NoCache == [has |-> FALSE, recs |-> <<>>]

\* The file at db.path(commit).
FileAt(d, commit) == IF commit \in DOMAIN d.files THEN d.files[commit] ELSE NoFile

\* db.streams[commit]
CacheAt(d, commit) == IF commit \in DOMAIN d.streams THEN d.streams[commit] ELSE NoCache

ClosedSet(closed) == {closed[i] : i \in 1..Len(closed)}

SetMax(S) == CHOOSE x \in S : \A y \in S : y <= x
SetMin(S) == CHOOSE x \in S : \A y \in S : x <= y

\* An addClosed that appends without looking for the commit.
addClosedAlways(closed, commit) == Append(closed, commit)

\* DB.addClosed: append unless already there.
addClosed(closed, commit) ==
  IF commit \in ClosedSet(closed) THEN closed ELSE Append(closed, commit)

\* DB.prev: the largest closed commit below commit, 0 if none.
prev(d, commit) ==
  LET below == {c \in ClosedSet(d.closed) : c < commit}
  IN IF below = {} THEN 0 ELSE SetMax(below)

\* DB.next: the smallest of the closed commits and db.current above commit,
\* 0 if none.
next(d, commit) ==
  LET above == {c \in ClosedSet(d.closed) \cup {d.current} : c > commit}
  IN IF above = {} THEN 0 ELSE SetMin(above)

\* DB.setCurrent: the file at path(commit) is removed and created anew as an
\* open stream, which becomes db.stream.
setCurrent(d, commit) ==
  [d EXCEPT !.current = commit,
            !.mockoffset = MockOffset,
            !.files = [c \in DOMAIN d.files |->
                         IF c = commit THEN [exists |-> TRUE, recs |-> <<>>]
                         ELSE d.files[c]],
            !.stream = createOpenStream]

\* DB.retrieveStream.  s is "current" (db.stream), "cached" (db.streams[commit])
\* or "nil"; err is "" (nil), "nofile" or "recover".
retrieveStream(d, commit, fetchMissing) ==
  IF d.current = commit /\ d.stream.some THEN [d |-> d, s |-> "current", err |-> ""]
  ELSE IF CacheAt(d, commit).has THEN [d |-> d, s |-> "cached", err |-> ""]
  ELSE LET f == FileAt(d, commit)
           isClosed == f.exists /\ IsClosedFile(f.recs)
           missing == ~f.exists \/ ~isClosed
       IN IF missing /\ fetchMissing /\ RecoverStreamFails
          THEN [d |-> d, s |-> "nil", err |-> "recover"]
          ELSE IF ~f.exists THEN [d |-> d, s |-> "nil", err |-> "nofile"]
          ELSE IF ~isClosed THEN [d |-> d, s |-> "nil", err |-> ""]
          ELSE [d |-> [d EXCEPT !.streams =
                         [c \in DOMAIN d.streams |->
                            IF c = commit THEN [has |-> TRUE, recs |-> f.recs]
                            ELSE d.streams[c]]],
                s |-> "cached", err |-> ""]

\* An old commit is a duplicate replay.
IsOldCommit(commit, cur) == commit <= cur

\* A Write without the replay check.
WriteAnyCommit(d, commit, body, indexes, timestamp) ==
  IF ~d.stream.some
  THEN [d EXCEPT !.mockoffset = d.mockoffset + EventLength(BackOffsets(NoOffsets, indexes))]
  ELSE LET w == StreamWrite(d.stream, d.files[d.current].recs, body, indexes)
       IN [d EXCEPT !.stream = w.s,
                    !.files = [c \in DOMAIN d.files |->
                                 IF c = d.current THEN [exists |-> TRUE, recs |-> w.rs]
                                 ELSE d.files[c]],
                    !.MostRecent = IF timestamp > d.MostRecent THEN timestamp
                                   ELSE d.MostRecent]

\* DB.Write
Write(d, commit, body, indexes, timestamp) ==
  IF IsOldCommit(commit, d.current) THEN d
  ELSE IF ~d.stream.some
  THEN [d EXCEPT !.mockoffset = d.mockoffset + EventLength(BackOffsets(NoOffsets, indexes))]
  ELSE LET w == StreamWrite(d.stream, d.files[d.current].recs, body, indexes)
       IN [d EXCEPT !.stream = w.s,
                    !.files = [c \in DOMAIN d.files |->
                                 IF c = d.current THEN [exists |-> TRUE, recs |-> w.rs]
                                 ELSE d.files[c]],
                    !.MostRecent = IF timestamp > d.MostRecent THEN timestamp
                                   ELSE d.MostRecent]

\* db.stream.Close() followed by db.addClosed(db.current).
CloseCurrent(d) ==
  LET c == StreamClose(d.stream, d.files[d.current].recs)
  IN [d EXCEPT !.stream = c.s,
               !.files = [x \in DOMAIN d.files |->
                            IF x = d.current THEN [exists |-> TRUE, recs |-> c.rs]
                            ELSE d.files[x]],
               !.closed = addClosed(d.closed, d.current)]

\* DB.Rotate
Rotate(d, commit, term) ==
  LET r == retrieveStream(d, commit, FALSE)
      \* s != nil && s.Closed(): db.stream is never a closed stream here
      adopt == r.s = "cached"
  IN IF adopt
     THEN [r.d EXCEPT !.closed = addClosed(r.d.closed, commit),
                      !.stream = NilStream,
                      !.mockoffset = MockOffset,
                      !.current = commit]
     ELSE IF r.d.stream.some THEN setCurrent(CloseCurrent(r.d), commit)
     ELSE setCurrent(r.d, commit)

\* A forgetStream that leaves the cache as it is.
forgetStreamNot(cache, commit) == cache

\* DB.forgetStream: delete(db.streams, commit)
forgetStream(cache, commit) ==
  [c \in DOMAIN cache |-> IF c = commit THEN NoCache ELSE cache[c]]

RECURSIVE ForgetRemoved(_, _, _, _)
\* The loop of Compress over db.closed: a commit that is not kept is forgotten.
ForgetRemoved(cache, cs, start, stop) ==
  IF cs = <<>> THEN cache
  ELSE ForgetRemoved(IF Head(cs) <= start \/ Head(cs) > stop THEN cache
                     ELSE forgetStream(cache, Head(cs)),
                     Tail(cs), start, stop)

\* A Compress that keeps only the commits below start and above stop.
CompressFromStart(d, start, stop, tmp) ==
  [d EXCEPT !.closed = SelectSeq(d.closed, LAMBDA c : c < start \/ c > stop),
            !.streams = forgetStream(ForgetRemoved(d.streams, d.closed, start, stop), start),
            !.files = [c \in DOMAIN d.files |->
                         IF c = start /\ tmp.exists THEN tmp ELSE d.files[c]]]

\* DB.Compress.  tmp is the file at compressedpath(start), which is renamed
\* to path(start) if it exists.
Compress(d, start, stop, tmp) ==
  [d EXCEPT !.closed = SelectSeq(d.closed, LAMBDA c : c <= start \/ c > stop),
            !.streams = forgetStream(ForgetRemoved(d.streams, d.closed, start, stop), start),
            !.files = [c \in DOMAIN d.files |->
                         IF c = start /\ tmp.exists THEN tmp ELSE d.files[c]]]

\* DB.snapshot: the index handed to raft.TakeSnapshotFrom, -1 when Rotate
\* takes no snapshot.
SnapshotIndex(d, commit) ==
  IF retrieveStream(d, commit, FALSE).s # "cached" /\ d.stream.some
  THEN (IF commit > SnapshotBuffer THEN commit - SnapshotBuffer ELSE 0)
  ELSE -1

\* The records a retrieved stream reads, and its tails.
StreamRecs(d, commit, s) ==
  IF s = "current" THEN d.files[d.current].recs ELSE CacheAt(d, commit).recs

StreamTails(d, commit, s) ==
  IF s = "current" THEN d.stream.tails ELSE SstTails(CacheAt(d, commit).recs)

\* What a read loop returns: the DB (its cache and file position may have
\* moved), the events handed to the scanner, the commits visited, and the
\* position (commit, offset) the loop ended at.
ReadEnd(d, events, visited, commit, offset, stopped, err, loops) ==
  [d |-> d, events |-> events, visited |-> visited, commit |-> commit,
   offset |-> offset, stopped |-> stopped, err |-> err, loops |-> loops]

\* The events and the commit of one file in front of those of the rest.
Prepend(events, commit, rest) ==
  [rest EXCEPT !.events = events \o rest.events,
               !.visited = <<commit>> \o rest.visited]

RECURSIVE IterateLoop(_, _, _, _, _, _)

\* if !stopped { commit = db.next(commit); offset = 0 }
IterateRest(d, events, commit, count, limit, fuel) ==
  Prepend(events, commit,
          IterateLoop(d, next(d, commit), 0, count + Len(events), limit, fuel - 1))

\* offset, err = s.Iterate(offset, scanner) has returned it.
IterateRead(d, it, commit, count, limit, fuel) ==
  IF it.err THEN ReadEnd(d, it.events, <<commit>>, 0, 0, FALSE, TRUE, FALSE)
  ELSE IF it.stopped
  THEN ReadEnd(d, it.events, <<commit>>, commit, it.offset, TRUE, FALSE, FALSE)
  ELSE IterateRest(d, it.events, commit, count, limit, fuel)

\* Reading db.stream moves the position of its file.
Moved(d, s, pos) ==
  IF s = "current" /\ pos >= 0 THEN [d EXCEPT !.stream.pos = pos] ELSE d

IterateMoved(d, s, it, commit, count, limit, fuel) ==
  IterateRead(Moved(d, s, it.pos), it, commit, count, limit, fuel)

\* s, err := db.retrieveStream(commit, true) has returned r.
IterateFile(r, commit, offset, count, limit, fuel) ==
  IF r.err # "" THEN ReadEnd(r.d, <<>>, <<>>, 0, 0, FALSE, TRUE, FALSE)
  ELSE IterateMoved(r.d, r.s,
                    StreamIterate(StreamRecs(r.d, commit, r.s), offset, count, limit),
                    commit, count, limit, fuel)

\* The loop of DB.Iterate: for !stopped && commit > 0.  fuel bounds the
\* files visited; running out of it is reported as loops.
IterateLoop(d, commit, offset, count, limit, fuel) ==
  IF commit <= 0 THEN ReadEnd(d, <<>>, <<>>, commit, offset, FALSE, FALSE, FALSE)
  ELSE IF fuel = 0 THEN ReadEnd(d, <<>>, <<>>, commit, offset, FALSE, FALSE, TRUE)
  ELSE IterateFile(retrieveStream(d, commit, TRUE), commit, offset, count, limit, fuel)

\* return buildContinuation(commit, offset), nil
IterateResult(r) ==
  [d |-> r.d, events |-> DataOf(r.events), visited |-> r.visited,
   out |-> IF r.err THEN <<>> ELSE buildContinuation(r.commit, r.offset),
   err |-> r.err, loops |-> r.loops]

IterateStart(d, start, limit) ==
  IterateResult(IterateLoop(d, start.commit, start.offset, 0, limit, MaxCommit + 2))

\* DB.Iterate(continuation, scanner): the events handed to the scanner, the
\* commits visited and the cursor returned ("" with an error).
Iterate(d, continuation, limit) ==
  IterateStart(d, parseContinuation(d, continuation, FALSE), limit)

RECURSIVE ScanLoop(_, _, _, _, _, _, _)

\* if !stopped { commit = db.prev(commit); offset = 0 }
ScanRest(d, index, events, commit, count, limit, fuel) ==
  Prepend(events, commit,
          ScanLoop(d, index, prev(d, commit), 0, count + Len(events), limit, fuel - 1))

\* err = s.ScanIndex(name, value, offset, ...) has returned sc; the scanner
\* wrapper has set offset = e.Next(name, value) for every event handed over.
ScanRead(d, index, sc, commit, offset, count, limit, fuel) ==
  IF sc.err THEN ReadEnd(d, sc.events, <<commit>>, 0, 0, FALSE, TRUE, FALSE)
  ELSE IF sc.stopped
  THEN ReadEnd(d, sc.events, <<commit>>, commit,
               IF sc.next = -1 THEN offset ELSE sc.next, TRUE, FALSE, FALSE)
  ELSE ScanRest(d, index, sc.events, commit, count, limit, fuel)

ScanMoved(d, s, index, sc, commit, offset, count, limit, fuel) ==
  ScanRead(Moved(d, s, sc.pos), index, sc, commit, offset, count, limit, fuel)

\* s, err := db.retrieveStream(commit, true) has returned r.
ScanFile(r, index, commit, offset, count, limit, fuel) ==
  IF r.err # "" THEN ReadEnd(r.d, <<>>, <<>>, 0, 0, FALSE, TRUE, FALSE)
  ELSE ScanMoved(r.d, r.s, index,
                 StreamScanIndex(StreamRecs(r.d, commit, r.s),
                                 StreamTails(r.d, commit, r.s),
                                 index, offset, count, limit),
                 commit, offset, count, limit, fuel)

\* The loop of DB.Scan: for !stopped && commit > 0.
ScanLoop(d, index, commit, offset, count, limit, fuel) ==
  IF commit <= 0 THEN ReadEnd(d, <<>>, <<>>, commit, offset, FALSE, FALSE, FALSE)
  ELSE IF fuel = 0 THEN ReadEnd(d, <<>>, <<>>, commit, offset, FALSE, FALSE, TRUE)
  ELSE ScanFile(retrieveStream(d, commit, TRUE), index, commit, offset, count, limit, fuel)

\* The cursor DB.Scan returns for the position (commit, offset) its loop
\* ended at: a scan stopped at the end of a chain steps to the previous
\* commit, and the cursor carries offset 0.
ScanCursor(d, commit, offset, stopped) ==
  buildContinuation(IF stopped /\ offset = 0 THEN prev(d, commit) ELSE commit, 0)

ScanResult(r) ==
  [d |-> r.d, events |-> DataOf(r.events), visited |-> r.visited,
   out |-> IF r.err THEN <<>> ELSE ScanCursor(r.d, r.commit, r.offset, r.stopped),
   err |-> r.err, loops |-> r.loops]

ScanStart(d, index, start, limit) ==
  ScanResult(ScanLoop(d, index, start.commit, start.offset, 0, limit, MaxCommit + 2))

\* DB.Scan(name, value, continuation, scanner)
Scan(d, index, continuation, limit) ==
  ScanStart(d, index, parseContinuation(d, continuation, TRUE), limit)

\* ----------------------------------------------------------- snapshot blob
\* int64 current | int64 MostRecent | uvarint n | n x int64 closed commit,
\* little-endian, as a sequence of bytes.

RECURSIVE LEBytes(_, _)
\* binary.WriteInt64 of a non-negative value: w little-endian bytes.
LEBytes(n, w) == IF w = 0 THEN <<>> ELSE <<n % 256>> \o LEBytes(n \div 256, w - 1)

RECURSIVE LEValue(_)
\* binary.ReadInt64
LEValue(bs) == IF bs = <<>> THEN 0 ELSE Head(bs) + 256 * LEValue(Tail(bs))

RECURSIVE UvarintBytes(_)
\* binary.WriteUvarint: 7 bits a byte, the high bit set on all but the last.
UvarintBytes(n) ==
  IF n < 128 THEN <<n>> ELSE <<128 + (n % 128)>> \o UvarintBytes(n \div 128)

RECURSIVE EncodeCommits(_)
EncodeCommits(cs) ==
  IF cs = <<>> THEN <<>> ELSE LEBytes(Head(cs), 8) \o EncodeCommits(Tail(cs))

\* DB.Save
Save(d) ==
  LEBytes(d.current, 8) \o LEBytes(d.MostRecent, 8)
    \o UvarintBytes(Len(d.closed)) \o EncodeCommits(d.closed)

RECURSIVE ReadUvarint(_)
\* binary.ReadUvarint: the value and the number of bytes read.
ReadUvarint(bs) ==
  IF bs = <<>> THEN [v |-> 0, n |-> 0]
  ELSE IF Head(bs) < 128 THEN [v |-> Head(bs), n |-> 1]
  ELSE LET r == ReadUvarint(Tail(bs))
       IN [v |-> (Head(bs) - 128) + 128 * r.v, n |-> r.n + 1]

RECURSIVE RecoverClosed(_, _, _)
\* for i := 0; i < count; i++ { db.addClosed(uint64(binary.ReadInt64(buf))) }
RecoverClosed(closed, bs, count) ==
  IF count = 0 THEN closed
  ELSE RecoverClosed(addClosed(closed, LEValue(SubSeq(bs, 1, 8))),
                     SubSeq(bs, 9, Len(bs)), count - 1)

\* DB.Recovery
Recovery(d, b) ==
  LET d1 == setCurrent(d, LEValue(SubSeq(b, 1, 8)))
      cnt == ReadUvarint(SubSeq(b, 17, Len(b)))
  IN [d1 EXCEPT !.MostRecent = LEValue(SubSeq(b, 9, 16)),
                !.closed = RecoverClosed(d1.closed, SubSeq(b, 17 + cnt.n, Len(b)), cnt.v)]

\* ------------------------------------------------------------------- state

VARIABLES
  current,     \* db.current
  closed,      \* db.closed
  MostRecent,  \* db.MostRecent
  mockoffset,  \* db.mockoffset
  stream,      \* db.stream: the open stream of the current file, or nil
  streams,     \* db.streams: the cache of closed streams
  files,       \* the stream files of db.dir, by commit
  blob,        \* the snapshot Save just returned (empty after any other call)
  nev,         \* the number of events Write has accepted
  last,        \* the last call: its arguments and what it returned
  s1,          \* progress through scenario S1 (-1: the run left it)
  os,          \* a stand-alone openStream: tails, closed, offset, length
  osf,         \* the records of its file
  oshist,      \* the (data, indexes) of the Write calls made on it
  osout,       \* the last call on it and the events its scanner was handed
  rot,         \* the Rotate in progress: the statement it is at
  seen,        \* what a reader running beside the Rotate has just observed
  br,          \* a block reader, the blocks under it and the bytes it returned
  th,          \* the goroutines in retrieveStream or Compress: where each is
  lk,          \* streamlock: the goroutine holding it for writing, those reading
  acc          \* the events Write appended to the open stream, with their file

dbvars == <<current, closed, MostRecent, mockoffset, stream, streams, files>>
osvars == <<os, osf, oshist, osout, br, th, lk, acc>>
svars == <<os, osf, oshist, osout, rot, seen, br, th, lk, acc>>
vars == <<current, closed, MostRecent, mockoffset, stream, streams, files,
          blob, nev, last, s1, os, osf, oshist, osout, rot, seen, br, th, lk, acc>>

\* The DB as one value.
DB ==
  [current |-> current, closed |-> closed, MostRecent |-> MostRecent,
   mockoffset |-> mockoffset, stream |-> stream, streams |-> streams,
   files |-> files]

SetDB(d) ==
  /\ current' = d.current
  /\ closed' = d.closed
  /\ MostRecent' = d.MostRecent
  /\ mockoffset' = d.mockoffset
  /\ stream' = d.stream
  /\ streams' = d.streams
  /\ files' = d.files

InitDB(d) ==
  /\ current = d.current
  /\ closed = d.closed
  /\ MostRecent = d.MostRecent
  /\ mockoffset = d.mockoffset
  /\ stream = d.stream
  /\ streams = d.streams
  /\ files = d.files

\* A DB value before NewDb's Rotate(1, 0): an empty directory.
EmptyDB ==
  [current |-> 0, closed |-> <<>>, MostRecent |-> 0, mockoffset |-> 0,
   stream |-> NilStream, streams |-> [c \in Commits |-> NoCache],
   files |-> [c \in Commits |-> NoFile]]

\* NewDb(path) on an empty directory
NewDb == Rotate(EmptyDB, 1, 0)

Call(op) ==
  [op |-> op, commit |-> 0, body |-> "", index |-> "", cursor |-> <<>>,
   limit |-> 0, events |-> <<>>, visited |-> <<>>, out |-> <<>>, err |-> FALSE,
   loops |-> FALSE, snap |-> -1, stop |-> 0, closedWas |-> <<>>, cachedWas |-> {}]

\* A call on the stand-alone stream: what it was given and what it returned;
\* mem is the stream in memory before a reopen, cut the bytes a crash tore
\* off, at the offset a Write wrote at.
OsCall(op) ==
  [op |-> op, index |-> "", events |-> <<>>, err |-> FALSE, loops |-> FALSE,
   mem |-> NilStream, cut |-> 0, at |-> 0]

\* ------------------------------------------------------- package blocks
\* Bytes are numbers 0..255; a buffer is a sequence of bytes.

\* headerLen: the width of a block header, by the width of fixedInt(blockSize).
headerLen(bs) ==
  IF bs <= 65535 THEN 2 ELSE IF bs \div 65536 <= 65535 THEN 4 ELSE 8

RECURSIVE LittleEndian(_, _)
\* n as w little-endian bytes.
LittleEndian(n, w) ==
  IF w = 0 THEN <<>> ELSE <<n % 256>> \o LittleEndian(n \div 256, w - 1)

RECURSIVE parseHeader(_)
\* Reader.parseHeader: binary.Read of the head, little-endian.
parseHeader(head) ==
  IF head = <<>> THEN 0 ELSE Head(head) + 256 * parseHeader(Tail(head))

\* The first n bytes of a buffer (all of it if it is shorter), and the rest.
Take(b, n) == SubSeq(b, 1, IF n < Len(b) THEN n ELSE Len(b))
Drop(b, n) == SubSeq(b, (IF n < Len(b) THEN n ELSE Len(b)) + 1, Len(b))

\* A physical block: header(payload_len) || payload || padding.
Block(payload, padding) ==
  LittleEndian(Len(payload), headerLen(blockSize)) \o payload \o padding

RECURSIVE BlockBytes(_)
\* The bytes of a file of blocks.
BlockBytes(blocks) ==
  IF blocks = <<>> THEN <<>>
  ELSE Block(Head(blocks).payload, Head(blocks).padding) \o BlockBytes(Tail(blocks))

\* NewByteReader(b, blockSize): both buffers empty, the reader at the start.
NewByteReader(blocks) ==
  [some |-> TRUE, blocks |-> blocks, file |-> BlockBytes(blocks), pos |-> 0,
   buffer |-> <<>>, scratch |-> <<>>, out |-> <<>>, n |-> 0, err |-> FALSE]

\* No block reader has been made.
NoReader ==
  [some |-> FALSE, blocks |-> <<>>, file |-> <<>>, pos |-> 0,
   buffer |-> <<>>, scratch |-> <<>>, out |-> <<>>, n |-> 0, err |-> FALSE]

\* Reader.parse: a header is read off scratch, then as many bytes as it
\* declares (or as scratch holds), which go to buffer.
parse(r) ==
  LET head == Take(r.scratch, headerLen(blockSize))
      rest == Drop(r.scratch, headerLen(blockSize))
  IN [r EXCEPT !.buffer = r.buffer \o Take(rest, parseHeader(head)),
               !.scratch = Drop(rest, parseHeader(head))]

\* One turn of the loop of fetch: r.reader.Read(block), scratch.Write, parse
\* if more than a header came.
fetchBlock(r) ==
  LET block == Take(Drop(r.file, r.pos), headerLen(blockSize) + blockSize)
      read == [r EXCEPT !.pos = r.pos + Len(block),
                        !.scratch = r.scratch \o block]
  IN IF Len(block) > headerLen(blockSize) THEN parse(read) ELSE read

RECURSIVE fetch(_, _)
\* Reader.fetch: blocks are read until buffer holds length bytes or the
\* underlying reader fails (io.EOF at the end of the file).
fetch(r, length) ==
  IF Len(r.buffer) >= length THEN r
  ELSE IF r.pos >= Len(r.file) THEN r
  ELSE fetch(fetchBlock(r), length)

\* Reader.Read(p) with len(p) = n: fetch, then buffer.Read(p).  out collects
\* the bytes every Read returned; err is io.EOF from an empty buffer.
BlockRead(r, n) ==
  LET f == fetch(r, n)
  IN [f EXCEPT !.buffer = Drop(f.buffer, n),
               !.out = r.out \o Take(f.buffer, n),
               !.n = n,
               !.err = f.buffer = <<>>]

\* The goroutines that call retrieveStream and Compress side by side.
Goroutines == {1, 2}

\* A goroutine in neither call.
Idle == [op |-> "idle", pc |-> "idle", commit |-> 0, stop |-> 0, err |-> FALSE]

\* var streamlock sync.RWMutex, nobody holding it (writer 0: none).
Unlocked == [writer |-> 0, readers |-> {}]

\* No Rotate is running.  pre is the DB the last Rotate started from and
\* sfile the commit of the file db.stream is open on (0: none).
NoRotate == [pc |-> "idle", commit |-> 0, pre |-> NewDb, sfile |-> 1]

\* No reader has looked since the last statement ran.
NoLook == [looked |-> FALSE, view |-> <<>>]

Init ==
  /\ InitDB(NewDb)
  /\ blob = <<>>
  /\ nev = 0
  /\ last = Call("NewDb")
  /\ s1 = 0
  /\ os = createOpenStream
  /\ osf = <<>>
  /\ oshist = <<>>
  /\ osout = OsCall("New")
  /\ rot = NoRotate
  /\ seen = NoLook
  /\ br = NoReader
  /\ th = [t \in Goroutines |-> Idle]
  /\ lk = Unlocked
  /\ acc = <<>>

\* ----------------------------------------------------------------- actions

ReadOps == {"Iterate", "Scan"}

\* Scenario S1: Write(1, "a"), Write(2, "b"), Write(3, "c"), Iterate("") on a
\* fresh DB.  s1 counts the calls of it made so far.
S1Next(op, commit, body, cursor, limit) ==
  IF s1 = 0 /\ op = "Write" /\ commit = 1 /\ body = "a" THEN 1
  ELSE IF s1 = 1 /\ op = "Write" /\ commit = 2 /\ body = "b" THEN 2
  ELSE IF s1 = 2 /\ op = "Write" /\ commit = 3 /\ body = "c" THEN 3
  ELSE IF s1 = 3 /\ op = "Iterate" /\ cursor = <<>> /\ limit = 0 THEN 4
  ELSE -1

\* db.Write(commit, body, indexes, timestamp)
WriteCall ==
  \E commit \in 1..(MaxCommit + 1), body \in Bodies :
    /\ IsOldCommit(commit, current) \/ nev < MaxEvents
    /\ SetDB(Write(DB, commit, body, IndexesOf(body), TimestampOf(body)))
    /\ nev' = IF IsOldCommit(commit, current) THEN nev ELSE nev + 1
    /\ last' = [Call("Write") EXCEPT !.commit = commit, !.body = body]
    /\ s1' = S1Next("Write", commit, body, <<>>, 0)
    /\ blob' = <<>>
    /\ UNCHANGED svars

\* db.Rotate(commit, term)
RotateCall ==
  \E commit \in Commits :
    /\ SetDB(Rotate(DB, commit, 0))
    /\ last' = [Call("Rotate") EXCEPT !.commit = commit,
                                      !.snap = SnapshotIndex(DB, commit)]
    /\ s1' = -1
    /\ blob' = <<>>
    /\ UNCHANGED svars
    /\ UNCHANGED nev

\* db.Save(): the consensus layer takes the blob.
SaveCall ==
  /\ blob' = Save(DB)
  /\ UNCHANGED svars
  /\ last' = Call("Save")
  /\ s1' = -1
  /\ UNCHANGED <<dbvars, nev>>

\* db.Recovery(blob) with the blob the Save just before it returned.
RecoveryCall ==
  /\ blob # <<>>
  /\ SetDB(Recovery(DB, blob))
  /\ last' = Call("Recovery")
  /\ s1' = -1
  /\ blob' = <<>>
  /\ UNCHANGED svars
  /\ UNCHANGED nev

\* A read has returned r: the cache and the file position are those it left.
ReadReturns(op, index, cursor, limit, r) ==
  /\ SetDB(r.d)
  /\ last' = [Call(op) EXCEPT !.index = index, !.cursor = cursor, !.limit = limit,
                              !.events = r.events, !.visited = r.visited,
                              !.out = r.out, !.err = r.err, !.loops = r.loops]
  /\ s1' = S1Next(op, 0, "", cursor, limit)
  /\ blob' = <<>>
  /\ UNCHANGED <<nev, svars>>

\* db.Iterate(cursor, scanner): the cursor is empty or the one the previous
\* Iterate returned.
IterateCall ==
  \E cursor \in {<<>>} \cup (IF last.op = "Iterate" THEN {last.out} ELSE {}),
     limit \in 0..MaxLimit :
    ReadReturns("Iterate", "", cursor, limit, Iterate(DB, cursor, limit))

\* db.Scan(name, value, cursor, scanner): the cursor is empty or the one the
\* previous Scan of the same index returned.
ScanCall ==
  \E index \in Labels, limit \in 0..MaxLimit :
    \E cursor \in {<<>>} \cup (IF last.op = "Scan" /\ last.index = index
                               THEN {last.out} ELSE {}) :
      ReadReturns("Scan", index, cursor, limit, Scan(DB, index, cursor, limit))

Next ==
  \/ WriteCall
  \/ RotateCall
  \/ SaveCall
  \/ RecoveryCall

\* The calls of the consensus layer's apply path, in any order.
Spec == Init /\ [][Next]_vars

\* Writes and rotates first, reads after them: the runs in which no read has
\* moved a file position before a Rotate closes the file.
WriteFirst == last.op \notin ReadOps /\ WriteCall
RotateFirst == last.op \notin ReadOps /\ RotateCall

NextWR ==
  \/ WriteFirst
  \/ RotateFirst
  \/ IterateCall
  \/ ScanCall

SpecWR == Init /\ [][NextWR]_vars

\* The precomputed artifact at compressedpath(start): none, or a closed
\* stream a compressor wrote, here one of the closed files of the directory.
TmpStreams(d) ==
  {NoFile} \cup {d.files[c] : c \in {x \in DOMAIN d.files :
                                       d.files[x].exists /\ IsClosedFile(d.files[x].recs)}}

\* db.Compress(start, stop)
CompressCall ==
  \E start \in Commits, stop \in Commits :
    \E tmp \in TmpStreams(DB) :
      /\ SetDB(Compress(DB, start, stop, tmp))
      /\ last' = [Call("Compress") EXCEPT
                    !.commit = start, !.stop = stop, !.closedWas = closed,
                    !.cachedWas = {c \in Commits : streams[c].has}]
      /\ s1' = -1
      /\ blob' = <<>>
      /\ UNCHANGED svars
      /\ UNCHANGED nev

\* The snapshots a peer sends that has rotated through the commits in order:
\* Save() of a DB at commit c with 1..c-1 closed.
PeerSnapshots ==
  {Save([EmptyDB EXCEPT !.current = c, !.closed = [i \in 1..(c - 1) |-> i]]) :
     c \in Commits}

\* db.Recovery(b) with the snapshot of a peer.
RecoveryPeer ==
  \E b \in PeerSnapshots :
    /\ SetDB(Recovery(DB, b))
    /\ last' = [Call("Recovery") EXCEPT !.commit = Recovery(DB, b).current]
    /\ s1' = -1
    /\ blob' = <<>>
    /\ UNCHANGED svars
    /\ UNCHANGED nev

NextCompress ==
  \/ RotateCall
  \/ SaveCall
  \/ RecoveryCall
  \/ RecoveryPeer
  \/ CompressCall

\* Rotate, Save, Recovery and Compress in any order: the calls that change
\* current, closed and the cache.
SpecCompress == Init /\ [][NextCompress]_vars

\* ------------------------------------------- the stand-alone open stream

\* What is written to the stand-alone stream: the bodies above and "d",
\* which carries no index.
StreamBodies == Bodies \cup {"d"}

dball == <<current, closed, MostRecent, mockoffset, stream, streams, files,
           blob, nev, last, s1, rot, seen, br, th, lk, acc>>

\* s.Write(data, indexes)
OsWrite ==
  \E data \in StreamBodies :
    /\ os.length < MaxLen
    /\ LET w == StreamWrite(os, osf, data, IndexesOf(data))
       IN /\ os' = w.s
          /\ osf' = w.rs
          /\ osout' = [OsCall("Write") EXCEPT !.err = w.err, !.at = os.offset]
    /\ oshist' = IF os.closed THEN oshist
                 ELSE Append(oshist, [data |-> data, indexes |-> IndexesOf(data)])
    /\ UNCHANGED dball

\* s.ScanIndex(index, scanner)
OsScanIndex ==
  \E index \in Labels :
    LET r == ScanIndex(os, osf, index)
    IN /\ os' = [os EXCEPT !.pos = IF r.pos = -1 THEN os.pos ELSE r.pos]
       /\ osout' = [OsCall("ScanIndex") EXCEPT !.index = index, !.events = r.events,
                                                !.err = r.err, !.loops = r.loops]
       /\ UNCHANGED <<osf, oshist, dball>>

NextStream ==
  \/ OsWrite
  \/ OsScanIndex

\* One open stream, written and scanned.
SpecStream == Init /\ [][NextStream]_vars

\* The file with its last cut bytes gone: what is left of the last event no
\* longer decodes.
Truncated(rs, cut) ==
  IF cut = 0 THEN rs
  ELSE SubSeq(rs, 1, Len(rs) - 1)
         \o (IF rs[Len(rs)].size > cut THEN <<JunkRec(rs[Len(rs)].size - cut)>> ELSE <<>>)

\* The stream has been reopened from the file: sc is what scan returned.
OsReopened(sc, rs, cut) ==
  /\ os' = ScannedStream(sc, rs)
  /\ osf' = rs
  /\ oshist' = IF cut = 0 THEN oshist ELSE SubSeq(oshist, 1, Len(oshist) - 1)
  /\ osout' = [OsCall("Reopen") EXCEPT !.err = sc.res # "done", !.mem = os, !.cut = cut]
  /\ UNCHANGED dball

\* The process stops, a crash may tear bytes off the last event of the file,
\* and read(path) reopens it with newOpenStream.
OsReopen ==
  \E cut \in 0..(IF Len(osf) > 0 /\ osf[Len(osf)].k = "ev" THEN osf[Len(osf)].size ELSE 0) :
    OsReopened(scan(Truncated(osf, cut)), Truncated(osf, cut), cut)

NextReopen ==
  \/ OsWrite
  \/ OsScanIndex
  \/ OsReopen

\* One open stream, written, scanned, torn and reopened.
SpecReopen == Init /\ [][NextReopen]_vars

\* s.Iterate(scanner)
OsIterated(r) ==
  /\ os' = [os EXCEPT !.pos = r.pos]
  /\ osout' = [OsCall("Iterate") EXCEPT !.events = r.events, !.err = r.err]
  /\ UNCHANGED <<osf, oshist, dball>>

OsIterate == OsIterated(OpenIterate(osf))

\* s.Close()
OsClosed(c) ==
  /\ os' = c.s
  /\ osf' = c.rs
  /\ osout' = [OsCall("Close") EXCEPT !.mem = os]
  /\ UNCHANGED <<oshist, dball>>

OsClose == OsClosed(StreamClose(os, osf))

NextClose ==
  \/ OsWrite
  \/ OsScanIndex
  \/ OsIterate
  \/ OsClose

\* One open stream, written, read and closed.
SpecClose == Init /\ [][NextClose]_vars

\* ------------------------------------- Rotate, one statement at a time
\* Rotate and setCurrent take no lock, so a reader on another goroutine can
\* run between any two of their statements.

\* The commit of the file db.stream is open on in a DB at rest.
StreamFile(d) == IF d.stream.some THEN d.current ELSE 0

\* The statement Rotate starts with once retrieveStream has returned r.
RotateEntry(r) ==
  IF r.s = "cached" THEN "adopt"
  ELSE IF r.d.stream.some THEN "sentinel" ELSE "current"

\* db.Rotate(commit, term) is called: s, err := db.retrieveStream(commit, false)
RotateBegun(r, commit) ==
  /\ SetDB(r.d)
  /\ rot' = [pc |-> RotateEntry(r), commit |-> commit, pre |-> DB,
             sfile |-> rot.sfile]
  /\ seen' = NoLook
  /\ last' = [Call("Rotate") EXCEPT !.commit = commit]
  /\ UNCHANGED <<blob, nev, s1, osvars>>

RotateBegin ==
  \E commit \in Commits :
    /\ rot.pc = "idle"
    /\ RotateBegun(retrieveStream(DB, commit, FALSE), commit)

\* The file of a commit with new records.
WithFile(d, c, recs) ==
  [d EXCEPT !.files = [x \in DOMAIN d.files |->
                         IF x = c THEN [exists |-> TRUE, recs |-> recs] ELSE d.files[x]]]

\* The DB after the statement at pc of a Rotate to commit.
RotateStatement(d, pc, commit, sfile) ==
  CASE pc = "adopt" ->        \* db.addClosed(commit)
         [d EXCEPT !.closed = addClosed(d.closed, commit)]
    [] pc = "drop" ->         \* db.stream = nil; db.mockoffset = 10
         [d EXCEPT !.stream = NilStream, !.mockoffset = MockOffset]
    [] pc = "adopted" ->      \* db.current = commit
         [d EXCEPT !.current = commit]
    [] pc = "sentinel" ->     \* Close: binary.WriteInt32(s.stream, 0)
         [WithFile(d, sfile, WriteAt(d.files[sfile].recs, d.stream.pos, <<NilRec>>))
            EXCEPT !.stream.pos = d.stream.pos + NilRec.size]
    [] pc = "footer" ->       \* Close: buf.WriteTo(s.stream); s.closed = true
         [WithFile(d, sfile, WriteAt(d.files[sfile].recs, d.stream.pos,
                                     <<SstRec(d.stream.tails), FootRec>>))
            EXCEPT !.stream.pos = d.stream.pos + SumSizes(<<SstRec(d.stream.tails), FootRec>>),
                   !.stream.closed = TRUE]
    [] pc = "addClosed" ->    \* db.addClosed(db.current)
         [d EXCEPT !.closed = addClosed(d.closed, d.current)]
    [] pc = "current" ->      \* setCurrent: db.current = commit; db.mockoffset = 10
         [d EXCEPT !.current = commit, !.mockoffset = MockOffset]
    [] pc = "remove" ->       \* setCurrent: os.Remove(db.path(commit))
         [d EXCEPT !.files = [x \in DOMAIN d.files |->
                                IF x = commit THEN NoFile ELSE d.files[x]]]
    [] pc = "create" ->       \* setCurrent: s, err := stream.New(db.path(commit))
         WithFile(d, commit, <<>>)
    [] OTHER ->               \* setCurrent: db.stream = s
         [d EXCEPT !.stream = createOpenStream]

\* The statement that follows the one at pc.
RotateAfter(pc) ==
  CASE pc = "adopt" -> "drop"
    [] pc = "drop" -> "adopted"
    [] pc = "sentinel" -> "footer"
    [] pc = "footer" -> "addClosed"
    [] pc = "addClosed" -> "current"
    [] pc = "current" -> "remove"
    [] pc = "remove" -> "create"
    [] pc = "create" -> "assign"
    [] OTHER -> "idle"

\* The Rotate in progress runs its next statement.
RotateStep ==
  /\ rot.pc # "idle"
  /\ SetDB(RotateStatement(DB, rot.pc, rot.commit, rot.sfile))
  /\ rot' = [rot EXCEPT !.pc = RotateAfter(rot.pc),
                        !.sfile = IF rot.pc = "drop" THEN 0
                                  ELSE IF rot.pc = "assign" THEN rot.commit ELSE @]
  /\ seen' = NoLook
  /\ UNCHANGED <<blob, nev, last, s1, osvars>>

\* The state of the file of a commit as a reader finds it.
FileState(d, c) ==
  IF ~FileAt(d, c).exists THEN "none"
  ELSE IF IsClosedFile(FileAt(d, c).recs) THEN "closed"
  ELSE IF Len(FileAt(d, c).recs) > 0
          /\ FileAt(d, c).recs[Len(FileAt(d, c).recs)].k = "nil" THEN "partial"
  ELSE "open"

\* What a reader observes of a DB whose stream is open on the file of sfile:
\* current, closed, the file db.stream belongs to, and the state of the files.
View(d, sfile) ==
  [current |-> d.current, closed |-> d.closed, sfile |-> sfile,
   files |-> [c \in Commits |-> FileState(d, c)]]

\* A reader (retrieveStream, Scan or Iterate on another goroutine) looks at
\* the DB.
ReaderLooks ==
  /\ ~seen.looked
  /\ seen' = [looked |-> TRUE, view |-> View(DB, rot.sfile)]
  /\ UNCHANGED <<dbvars, blob, nev, last, s1, osvars, rot>>

\* A Write of the apply path: Rotate and Write never overlap.
WriteApplied ==
  /\ rot.pc = "idle"
  /\ seen' = NoLook
  /\ rot' = [NoRotate EXCEPT !.sfile = rot.sfile]
  /\ \E commit \in 1..(MaxCommit + 1), body \in Bodies :
       /\ IsOldCommit(commit, current) \/ nev < MaxEvents
       /\ SetDB(Write(DB, commit, body, IndexesOf(body), TimestampOf(body)))
       /\ nev' = IF IsOldCommit(commit, current) THEN nev ELSE nev + 1
       /\ last' = [Call("Write") EXCEPT !.commit = commit, !.body = body]
       /\ UNCHANGED <<blob, s1, osvars>>

NextRotate ==
  \/ WriteApplied
  \/ RotateBegin
  \/ RotateStep
  \/ ReaderLooks

\* Writes and Rotates of the apply path, with a reader beside them.
SpecRotate == Init /\ [][NextRotate]_vars

\* ------------------------------------------------- the block reader
PayloadBytes == {7, 8}
PaddingBytes == {0, 7}

\* The blocks a writer can have made: payload_len <= blockSize, padded to the
\* block size.
Blocks ==
  UNION {{[payload |-> p, padding |-> q] :
            p \in [1..n -> PayloadBytes], q \in [1..(blockSize - n) -> PaddingBytes]} :
         n \in 0..blockSize}

BlockFiles == UNION {[1..k -> Blocks] : k \in 0..MaxBlocks}

\* blocks.NewByteReader over a file of blocks.
BrNew ==
  /\ ~br.some
  /\ \E blocks \in BlockFiles : br' = NewByteReader(blocks)
  /\ UNCHANGED <<dbvars, blob, nev, last, s1, os, osf, oshist, osout, rot, seen, th, lk, acc>>

\* Reader.Read
BrRead ==
  /\ br.some
  /\ ~br.err
  /\ \E n \in 1..(blockSize + 1) : br' = BlockRead(br, n)
  /\ UNCHANGED <<dbvars, blob, nev, last, s1, os, osf, oshist, osout, rot, seen, th, lk, acc>>

NextBlocks ==
  \/ BrNew
  \/ BrRead

\* Successive Reads of a block reader over any file of blocks.
SpecBlocks == Init /\ [][NextBlocks]_vars

\* ------------------------------------------- streamlock and db.streams
\* retrieveStream and Compress one statement at a time.  A goroutine's pc
\* names the statement it runs next:
\*   retrieveStream  "peek" 519, "lock" 522, "recheck" 525, "insert" 529-547,
\*                   "unlock" 523, "rlock" 556, "lookup" 559, "runlock" 557
\*   Compress        "lock" 365, "forget" 370-378, "rename" 380-384,
\*                   "assign" 386, "unlock" 366

\* The goroutine t is at pc with the lock as given.
At(t, pc, lock) ==
  /\ th' = [th EXCEPT ![t].pc = pc]
  /\ lk' = lock

\* retrieveStream(commit, true) is called by a reader: line 515 returns
\* db.stream for the current commit, any other commit goes on to line 519.
RetrieveBegin ==
  \E t \in Goroutines, commit \in Commits :
    /\ th[t].op = "idle"
    /\ ~(current = commit /\ stream.some)
    /\ th' = [th EXCEPT ![t] = [Idle EXCEPT !.op = "retrieve", !.pc = "peek",
                                            !.commit = commit]]
    /\ UNCHANGED <<dbvars, blob, nev, last, s1, os, osf, oshist, osout, rot, seen, br, lk, acc>>

\* Compress(start, stop) is called.
CompressBegin ==
  \E t \in Goroutines, start \in Commits, stop \in Commits :
    /\ th[t].op = "idle"
    /\ \A u \in Goroutines : th[u].op # "compress"
    /\ th' = [th EXCEPT ![t] = [Idle EXCEPT !.op = "compress", !.pc = "lock",
                                            !.commit = start, !.stop = stop]]
    /\ UNCHANGED <<dbvars, blob, nev, last, s1, os, osf, oshist, osout, rot, seen, br, lk, acc>>

\* sync.RWMutex: Lock waits for every holder, RLock for a writer.

\* The next statement of retrieveStream in goroutine t.
RetrieveStatement(t, pc, commit) ==
  CASE pc = "peek" ->
         /\ At(t, IF streams[commit].has THEN "rlock" ELSE "lock", lk)
         /\ SetDB(DB)
    [] pc = "lock" ->
         /\ lk.writer = 0 /\ lk.readers = {}
         /\ At(t, "recheck", [lk EXCEPT !.writer = t])
         /\ SetDB(DB)
    [] pc = "recheck" ->
         /\ At(t, IF streams[commit].has THEN "unlock" ELSE "insert", lk)
         /\ SetDB(DB)
    [] pc = "insert" ->
         /\ th' = [th EXCEPT ![t].pc = "unlock",
                             ![t].err = retrieveStream(DB, commit, TRUE).err # ""]
         /\ lk' = lk
         /\ SetDB(retrieveStream(DB, commit, TRUE).d)
    [] pc = "unlock" ->
         /\ th' = [th EXCEPT ![t] = IF th[t].err THEN Idle
                                    ELSE [th[t] EXCEPT !.pc = "rlock"]]
         /\ lk' = [lk EXCEPT !.writer = 0]
         /\ SetDB(DB)
    [] pc = "rlock" ->
         /\ lk.writer = 0
         /\ At(t, "lookup", [lk EXCEPT !.readers = @ \cup {t}])
         /\ SetDB(DB)
    [] pc = "lookup" ->
         /\ At(t, "runlock", lk)
         /\ SetDB(DB)
    [] OTHER ->
         /\ th' = [th EXCEPT ![t] = Idle]
         /\ lk' = [lk EXCEPT !.readers = @ \ {t}]
         /\ SetDB(DB)

\* The next statement of Compress in goroutine t.
CompressStatement(t, pc, start, stop) ==
  CASE pc = "lock" ->
         /\ lk.writer = 0 /\ lk.readers = {}
         /\ At(t, "forget", [lk EXCEPT !.writer = t])
         /\ SetDB(DB)
    [] pc = "forget" ->
         /\ At(t, "rename", lk)
         /\ SetDB([DB EXCEPT !.streams = Compress(DB, start, stop, NoFile).streams])
    [] pc = "rename" ->
         /\ At(t, "assign", lk)
         /\ \E tmp \in TmpStreams(DB) :
              SetDB([DB EXCEPT !.files = Compress(DB, start, stop, tmp).files])
    [] pc = "assign" ->
         /\ At(t, "unlock", lk)
         /\ SetDB([DB EXCEPT !.closed = Compress(DB, start, stop, NoFile).closed])
    [] OTHER ->
         /\ th' = [th EXCEPT ![t] = Idle]
         /\ lk' = [lk EXCEPT !.writer = 0]
         /\ SetDB(DB)

\* A goroutine runs its next statement.
GoroutineStep ==
  \E t \in Goroutines :
    /\ th[t].op # "idle"
    /\ IF th[t].op = "retrieve"
       THEN RetrieveStatement(t, th[t].pc, th[t].commit)
       ELSE CompressStatement(t, th[t].pc, th[t].commit, th[t].stop)
    /\ UNCHANGED <<blob, nev, last, s1, os, osf, oshist, osout, rot, seen, br, acc>>

\* A Rotate of the apply path, while no goroutine is in either call.
RotateAlone ==
  /\ \A t \in Goroutines : th[t].op = "idle"
  /\ RotateCall

NextLock ==
  \/ RotateAlone
  \/ RetrieveBegin
  \/ CompressBegin
  \/ GoroutineStep

\* Readers in retrieveStream beside each other and beside a Compress.
SpecLock == Init /\ [][NextLock]_vars

\* ------------------------------------------------ the accepted events
\* db.Write(commit, body, indexes, timestamp), with the events that reached
\* the open stream (commit > current, db.stream != nil) kept in acc together
\* with the commit of the file they were appended to.
WriteAccepted ==
  \E commit \in 1..(MaxCommit + 1), body \in Bodies :
    /\ IsOldCommit(commit, current) \/ nev < MaxEvents
    /\ SetDB(Write(DB, commit, body, IndexesOf(body), TimestampOf(body)))
    /\ nev' = IF IsOldCommit(commit, current) THEN nev ELSE nev + 1
    /\ acc' = IF ~IsOldCommit(commit, current) /\ stream.some
              THEN Append(acc, [body |-> body, commit |-> current])
              ELSE acc
    /\ last' = [Call("Write") EXCEPT !.commit = commit, !.body = body]
    /\ s1' = -1
    /\ blob' = <<>>
    /\ UNCHANGED <<os, osf, oshist, osout, rot, seen, br, th, lk>>

NextKeep ==
  \/ WriteAccepted
  \/ RotateCall

\* Writes and Rotates in any order.
SpecKeep == Init /\ [][NextKeep]_vars

\* ------------------------------------------------------------------ claims

\* C1: a Write whose commit is at most db.current returns nil and changes
\* nothing: current, closed, MostRecent, mockoffset, the current stream (its
\* offset, tails and file position), the cache and every file stay as they were.
C1_ReplayedWriteChangesNothing ==
  [][(last'.op = "Write" /\ last'.commit <= current)
       => (UNCHANGED dbvars /\ ~last'.err)]_vars

\* A replayed Write has returned on a DB that holds events.
C1_Witness == last.op = "Write" /\ last.commit <= current /\ nev > 0

\* C2 as stated: on a fresh DB, Write(1, "a"), Write(2, "b"), Write(3, "c")
\* and then Iterate("") with a scanner that never stops delivers a, b, c.
C2_FreshIterateDeliversABC == s1 = 4 => last.events = <<"a", "b", "c">>

\* C2 amended: NewDb has rotated to commit 1, Write(1, "a") is dropped as a
\* replay, and the Iterate delivers exactly b, c, in that order, without error.
C2_FreshIterateDeliversBC ==
  s1 = 4 => (last.events = <<"b", "c">> /\ ~last.err /\ last.visited = <<1>>)

\* Scenario S1 has run to the end.
C2_Witness == s1 = 4 /\ last.op = "Iterate" /\ nev = 2

\* C3 as stated: Rotate(c, t) right after Rotate(c, t) leaves current, closed,
\* the current stream and the files as the first Rotate left them.
C3_RotateIdempotent ==
  [][(last.op = "Rotate" /\ last'.op = "Rotate" /\ last'.commit = last.commit)
       => UNCHANGED <<current, closed, stream, files>>]_vars

\* The events readable from the current stream.
CurrentEvents ==
  IF retrieveStream(DB, current, TRUE).err # "" THEN <<>>
  ELSE DataOf(StreamIterate(StreamRecs(retrieveStream(DB, current, TRUE).d, current,
                                       retrieveStream(DB, current, TRUE).s),
                            0, 0, 0).events)

\* C4 as stated: Recovery(Save()) leaves current, MostRecent, the closed set
\* and the events readable from the current stream as they were.
C4_RoundTripKeepsEvents ==
  [][(last.op = "Save" /\ last'.op = "Recovery")
       => /\ current' = current
          /\ MostRecent' = MostRecent
          /\ ClosedSet(closed') = ClosedSet(closed)
          /\ CurrentEvents' = CurrentEvents]_vars

\* C4 amended: Recovery(Save()) leaves current, MostRecent and the closed list
\* as they were, and replaces the current stream by a new, empty open stream
\* on a newly created file.
C4_RoundTripKeepsCommits ==
  [][(last.op = "Save" /\ last'.op = "Recovery")
       => /\ current' = current
          /\ MostRecent' = MostRecent
          /\ closed' = closed
          /\ stream' = createOpenStream
          /\ files'[current'] = [exists |-> TRUE, recs |-> <<>>]
          /\ CurrentEvents' = <<>>]_vars

\* Recovery(Save()) has run on a DB with closed files and written events.
C4_Witness == last.op = "Recovery" /\ closed # <<>> /\ MostRecent > 0 /\ nev > 0

\* The first of two calls ended because its scanner stopped.
ScannerStopped(call) == call.limit > 0 /\ Len(call.events) >= call.limit /\ ~call.err

\* An Iterate("") whose scanner stops after limit events is followed by an
\* Iterate of the cursor it returned, with a scanner that never stops.
IterateResumed ==
  /\ last.op = "Iterate" /\ last.cursor = <<>> /\ last.limit > 0
  /\ last'.op = "Iterate" /\ last'.cursor = last.out /\ last'.limit = 0

\* C5 as stated: for any k, the events of Iterate("") with a scanner that
\* stops after k events, followed by those of Iterate(K) for the cursor K it
\* returned, are the events of one Iterate("") whose scanner never stops.
C5_SplitIterateEqualsSingle ==
  [][IterateResumed => last.events \o last'.events = Iterate(DB, <<>>, 0).events]_vars

\* What the code does keep: when the DB holds at least k events, so that the
\* first call's scanner does stop, the two calls deliver what one call does.
StoppedIterateResumes ==
  [][(IterateResumed /\ ScannerStopped(last))
       => /\ last.out # <<>>
          /\ last.events \o last'.events = Iterate(DB, <<>>, 0).events]_vars

\* A stopped Iterate has been resumed and the resumption delivered the rest.
StoppedIterateResumed ==
  /\ last.op = "Iterate" /\ last.cursor # <<>> /\ last.limit = 0
  /\ Len(last.events) >= 1 /\ ~last.err

\* An Iterate("") that ran to exhaustion has returned.
IterateExhausted ==
  last.op = "Iterate" /\ last.cursor = <<>> /\ last.limit = 0 /\ ~last.err

\* C6 as stated: an Iterate that runs to exhaustion returns a non-empty
\* cursor naming the current commit, and an Iterate with that cursor delivers
\* none of the events already delivered.
C6_ExhaustedCursorIsTail ==
  IterateExhausted =>
    /\ last.out # <<>>
    /\ parseContinuation(DB, last.out, FALSE).commit = current
    /\ Iterate(DB, last.out, 0).events = <<>>

\* What the code does instead: an Iterate that runs to exhaustion returns the
\* empty cursor, and an Iterate with that cursor starts over and delivers the
\* same events again.
ExhaustedCursorIsEmpty ==
  IterateExhausted =>
    /\ last.out = <<>>
    /\ Iterate(DB, last.out, 0).events = last.events

\* An Iterate has run to exhaustion over several files and events.
ExhaustedIterate == IterateExhausted /\ Len(last.visited) >= 2 /\ Len(last.events) >= 2

\* C7 as stated: when the scanner of Scan(name, value, "") stops, a second
\* Scan with the cursor returned delivers exactly the matching events not yet
\* delivered: the two calls together deliver what one unstopped Scan delivers.
C7_StoppedScanResumes ==
  [][(/\ last.op = "Scan" /\ last.cursor = <<>> /\ ScannerStopped(last)
      /\ last'.op = "Scan" /\ last'.index = last.index
      /\ last'.cursor = last.out /\ last'.limit = 0)
       => last.events \o last'.events = Scan(DB, last.index, <<>>, 0).events]_vars

RECURSIVE SortedSeq(_)
\* The commits of a set in increasing order.
SortedSeq(S) ==
  IF S = {} THEN <<>> ELSE <<SetMin(S)>> \o SortedSeq(S \ {SetMin(S)})

\* The events written to the file of a commit, in insertion order.
FileEvents(c) == SelectEvents(FileAt(DB, c).recs)

RECURSIVE WithLabel(_, _)
\* The events of a sequence that carry the index label.
WithLabel(evs, index) ==
  IF evs = <<>> THEN <<>>
  ELSE IF index \in DOMAIN Head(evs).offsets
  THEN <<Head(evs)>> \o WithLabel(Tail(evs), index)
  ELSE WithLabel(Tail(evs), index)

RECURSIVE ForwardEvents(_)
ForwardEvents(cs) ==
  IF cs = <<>> THEN <<>> ELSE DataOf(FileEvents(Head(cs))) \o ForwardEvents(Tail(cs))

RECURSIVE ReverseEvents(_, _)
ReverseEvents(cs, index) ==
  IF cs = <<>> THEN <<>>
  ELSE DataOf(Reverse(WithLabel(FileEvents(Head(cs)), index)))
         \o ReverseEvents(Tail(cs), index)

\* C8 as stated: after any Writes and Rotates, Iterate("") with a scanner
\* that never stops visits every commit of closed and current once, in
\* increasing order, delivers the events of each file in insertion order, and
\* terminates.
C8_ForwardVisitsAllFiles ==
  (last.op = "Iterate" /\ last.cursor = <<>> /\ last.limit = 0) =>
    /\ ~last.err /\ ~last.loops
    /\ last.visited = SortedSeq(ClosedSet(closed) \cup {current})
    /\ last.events = ForwardEvents(SortedSeq(ClosedSet(closed) \cup {current}))

\* Every commit of closed names a closed file or the live stream; a Rotate
\* of the current commit (C3) is what breaks it.
ClosedFilesAreClosed ==
  \A c \in ClosedSet(closed) :
    (c = current /\ stream.some) \/ IsClosedFile(FileAt(DB, c).recs)

\* What the code does keep of C8: the claim holds whenever every commit of
\* closed names a closed file.
ForwardVisitsClosedFiles == ClosedFilesAreClosed => C8_ForwardVisitsAllFiles

\* C9 as stated: after any Writes and Rotates, Scan(name, value, "") with a
\* scanner that never stops delivers exactly the events with the label, those
\* of the current file first, then those of the closed files in decreasing
\* commit order, each file in reverse insertion order, and returns the empty
\* cursor.
C9_ReverseVisitsAllFiles ==
  (last.op = "Scan" /\ last.cursor = <<>> /\ last.limit = 0) =>
    /\ ~last.err /\ ~last.loops
    /\ last.out = <<>>
    /\ last.events =
         ReverseEvents(<<current>> \o Reverse(SortedSeq(ClosedSet(closed) \ {current})),
                       last.index)

\* What the code does keep of C9: when every commit of closed names a closed
\* file, the events with the label of the current file and of the closed
\* files below current are delivered.
ReverseVisitsFilesBelow ==
  (ClosedFilesAreClosed /\ last.op = "Scan" /\ last.cursor = <<>> /\ last.limit = 0) =>
    /\ ~last.err /\ ~last.loops
    /\ last.out = <<>>
    /\ last.events =
         ReverseEvents(<<current>>
                         \o Reverse(SortedSeq({c \in ClosedSet(closed) : c < current})),
                       last.index)

RECURSIVE Written(_, _)
\* The data of the recorded Write calls whose indexes contain the label.
Written(hist, index) ==
  IF hist = <<>> THEN <<>>
  ELSE IF index \in Head(hist).indexes
  THEN <<Head(hist).data>> \o Written(Tail(hist), index)
  ELSE Written(Tail(hist), index)

\* C10: on one open stream, ScanIndex(L) hands over exactly the events
\* written with L, latest first, and terminates; every back-pointer of an
\* event is smaller than the event's offset and is 0 or the offset of an
\* earlier event with the same label.
C10_IndexChain ==
  /\ osout.op = "ScanIndex" =>
       /\ ~osout.err /\ ~osout.loops
       /\ DataOf(osout.events) = Reverse(Written(oshist, osout.index))
  /\ \A i \in 1..Len(osf) : \A L \in DOMAIN osf[i].offsets :
       /\ osf[i].k = "ev"
       /\ osf[i].offsets[L] < Off(osf, i)
       /\ \/ osf[i].offsets[L] = 0
          \/ \E j \in 1..(i - 1) :
               Off(osf, j) = osf[i].offsets[L] /\ L \in DOMAIN osf[j].offsets

\* A ScanIndex has followed a chain of two events past an event without the
\* label.
C10_Witness ==
  /\ osout.op = "ScanIndex" /\ Len(osout.events) >= 2
  /\ Len(osout.events) < Len(oshist)

\* C11: when a crash tears bytes off the last event of an open file and the
\* file is reopened, scan reports no error, length is the number of events
\* written in full, offset is the end of the last of them, and the next Write
\* puts its event right there.
C11_TornTail ==
  /\ (osout.op = "Reopen" /\ osout.cut > 0) =>
       /\ ~osout.err
       /\ os.length = Len(oshist)
       /\ os.length = osout.mem.length - 1
       /\ DataOf(SelectEvents(SubSeq(osf, 1, os.length))) = DataOf(oshist)
       /\ os.offset = Off(osf, os.length + 1)
  /\ (osout.op = "Write" /\ ~osout.err) =>
       /\ osf[os.length].k = "ev"
       /\ Off(osf, os.length) = osout.at
       /\ SubSeq(osf, 1, os.length) = SelectEvents(SubSeq(osf, 1, os.length))
       /\ DataOf(SubSeq(osf, 1, os.length)) = DataOf(oshist)

\* A file of two events lost part of its last event and was reopened.
C11_Witness ==
  /\ osout.op = "Reopen" /\ osout.cut > 0 /\ os.length >= 1
  /\ Len(osf) = os.length + 1 /\ osf[Len(osf)].k = "junk"

\* A Write has put its event over what a crash left of a torn event.
C11_WitnessWrite ==
  /\ osout.op = "Write" /\ Len(osf) > os.length /\ osf[Len(osf)].k = "junk"

\* C17: scanning the file of a stream that was only written yields the
\* tails, offset and length the Writes kept in memory.
C17_RescanEqualsMemory ==
  (osout.op = "Reopen" /\ osout.cut = 0) =>
    /\ ~osout.err
    /\ os.tails = osout.mem.tails
    /\ os.offset = osout.mem.offset
    /\ os.length = osout.mem.length

\* A stream with two tails and three events was reopened untorn.
C17_Witness ==
  /\ osout.op = "Reopen" /\ osout.cut = 0
  /\ os.length >= 3 /\ Cardinality(DOMAIN os.tails) >= 2

\* C18 as stated: whatever reads moved the file position, Close writes the
\* sentinel, SST, SST length and footer at the write position, behind the
\* last written event, and every event written keeps its offset and bytes.
C18_CloseKeepsEvents ==
  (osout.op = "Close" /\ ~osout.mem.closed) =>
    /\ Len(osf) >= Len(oshist) + 3
    /\ DataOf(SubSeq(osf, 1, Len(oshist))) = DataOf(oshist)
    /\ \A i \in 1..Len(oshist) : osf[i].k = "ev"
    /\ osf[Len(oshist) + 1] = NilRec
    /\ Off(osf, Len(oshist) + 1) = osout.mem.offset

\* What the code does keep of C18: a Close that finds the file position at
\* the write position keeps every event.
CloseAtOffsetKeepsEvents ==
  (osout.op = "Close" /\ ~osout.mem.closed /\ osout.mem.pos = osout.mem.offset) =>
    /\ DataOf(SubSeq(osf, 1, Len(oshist))) = DataOf(oshist)
    /\ osf[Len(oshist) + 1] = NilRec
    /\ Off(osf, Len(oshist) + 1) = osout.mem.offset

\* The statements of a Rotate, run one after the other, end in the state
\* Rotate describes.
RotateStatementsMakeRotate ==
  (rot.pc = "idle" /\ rot.commit # 0) =>
    /\ DB = Rotate(rot.pre, rot.commit, 0)
    /\ rot.sfile = StreamFile(DB)

\* C12 as stated: a reader that runs while a Rotate is in progress observes
\* the DB as it was before the Rotate or as it is after it, never a state in
\* between.
C12_ReaderSeesRotateAtomic ==
  (seen.looked /\ rot.pc # "idle") =>
    \/ seen.view = View(rot.pre, StreamFile(rot.pre))
    \/ seen.view = View(Rotate(rot.pre, rot.commit, 0),
                        StreamFile(Rotate(rot.pre, rot.commit, 0)))

\* C12, its second case: no reader finds db.current at the new commit while
\* db.stream is still the stream of the old one.
C12_ReaderSeesStaleStream ==
  (seen.looked /\ rot.pc # "idle") =>
    (seen.view.sfile = 0 \/ seen.view.sfile = seen.view.current)

RECURSIVE Payloads(_)
\* The concatenation of the payloads of a file of blocks.
Payloads(blocks) ==
  IF blocks = <<>> THEN <<>> ELSE Head(blocks).payload \o Payloads(Tail(blocks))

\* b is the start of c.
IsPrefixOf(b, c) == Len(b) <= Len(c) /\ b = SubSeq(c, 1, Len(b))

\* C13 as stated: the bytes successive Reads return are the concatenation of
\* the payloads of the blocks, no header or padding byte among them, and all
\* of it once a Read reports the end.
C13_ReadsArePayloads ==
  br.some =>
    /\ IsPrefixOf(br.out, Payloads(br.blocks))
    /\ (br.err => br.out = Payloads(br.blocks))

\* The same holds of files whose blocks carry no padding.
UnpaddedReadsArePayloads ==
  (br.some /\ \A i \in DOMAIN br.blocks : br.blocks[i].padding = <<>>) =>
    /\ IsPrefixOf(br.out, Payloads(br.blocks))
    /\ (br.err => br.out = Payloads(br.blocks))

\* A file of two full blocks read to its end.
UnpaddedReadToEnd ==
  /\ br.some /\ br.err /\ Len(br.blocks) = MaxBlocks
  /\ \A i \in DOMAIN br.blocks : br.blocks[i].padding = <<>>

\* What a Compress removed from closed.
CompressRemoved == ClosedSet(last.closedWas) \ ClosedSet(closed)

\* C14: Compress(start, stop) removes from closed exactly the commits c with
\* start < c <= stop and keeps the others in their order, leaves current and
\* MostRecent as they were, and leaves no cache entry for start nor for a
\* removed commit.
C14_CompressFrame ==
  [][last'.op = "Compress" =>
       /\ closed' = SelectSeq(closed, LAMBDA c : ~(last'.commit < c /\ c <= last'.stop))
       /\ current' = current
       /\ MostRecent' = MostRecent
       /\ ~streams'[last'.commit].has
       /\ \A c \in ClosedSet(closed) \ ClosedSet(closed') : ~streams'[c].has]_vars

\* A Compress has removed a commit that was cached and kept another.
C14_Witness ==
  /\ last.op = "Compress"
  /\ CompressRemoved \cap last.cachedWas # {}
  /\ Len(closed) >= 1

\* C15 as stated: db.current is never a member of db.closed.
C15_CurrentNotClosed == current \notin ClosedSet(closed)

\* C19: a forward read with an empty cursor starts at the smallest commit of
\* closed, at current when closed is empty: the first element of closed is
\* its minimum.
C19_FirstClosedIsSmallest ==
  /\ Len(closed) > 0 => closed[1] = SetMin(ClosedSet(closed))
  /\ parseContinuation(DB, <<>>, FALSE) =
       [commit |-> IF Len(closed) > 0 THEN SetMin(ClosedSet(closed)) ELSE current,
        offset |-> 0]

\* closed is out of order behind its first element, and a Compress has run.
C19_Witness ==
  /\ last.op = "Compress"
  /\ Len(closed) >= 2
  /\ closed[2] > closed[Len(closed)]

\* The stream files of the directory that are open: a header and no footer.
OpenFiles == {c \in Commits : files[c].exists /\ ~IsClosedFile(files[c].recs)}

\* C16 as stated: at most one stream file of the directory is open.
C16_OneOpenFile == Cardinality(OpenFiles) <= 1

\* A Rotate that closed the stream it replaced leaves db.stream on the new
\* current file, which is open.
RotateClosesReplaced ==
  (last.op = "Rotate" /\ last.snap # -1) =>
    (stream.some /\ current \in OpenFiles)

\* The goroutine is about to read db.streams.
Looking(t) ==
  th[t].op = "retrieve" /\ th[t].pc \in {"peek", "recheck", "lookup"}

\* The goroutine is about to insert into db.streams or delete from it.
Changing(t) ==
  \/ th[t].op = "retrieve" /\ th[t].pc = "insert"
  \/ th[t].op = "compress" /\ th[t].pc = "forget"

\* C20 as stated: every access to db.streams is made holding streamlock, a
\* change under the write lock and a lookup under at least the read lock, so
\* that no lookup runs beside an insertion or a deletion.
C20_CacheAccessUnderLock ==
  \A t \in Goroutines :
    /\ Changing(t) => lk.writer = t
    /\ Looking(t) => (lk.writer = t \/ t \in lk.readers)
    /\ \A u \in Goroutines \ {t} : ~(Looking(t) /\ Changing(u))

\* The changes are made under the write lock, and the lookups of lines 525
\* and 559 under the lock: none of these runs beside a change.
LockedAccessesDoNotRace ==
  \A t \in Goroutines :
    /\ Changing(t) => (lk.writer = t /\ lk.readers = {})
    /\ (th[t].op = "retrieve" /\ th[t].pc \in {"recheck", "lookup"}) =>
         /\ (lk.writer = t \/ t \in lk.readers)
         /\ \A u \in Goroutines \ {t} : ~Changing(u)

RECURSIVE AcceptedIn(_, _)
\* The bodies of the accepted events that were appended to the file of c.
AcceptedIn(hist, c) ==
  IF hist = <<>> THEN <<>>
  ELSE IF Head(hist).commit = c THEN <<Head(hist).body>> \o AcceptedIn(Tail(hist), c)
  ELSE AcceptedIn(Tail(hist), c)

\* The elements of a sequence.
Elements(q) == {q[i] : i \in 1..Len(q)}

\* Every accepted event is in the file it was appended to, the commit of
\* that file is in closed or current, and Iterate("") delivers it.
AcceptedReachable ==
  \A i \in 1..Len(acc) :
    /\ acc[i].commit \in ClosedSet(closed) \cup {current}
    /\ FileAt(DB, acc[i].commit).exists
    /\ DataOf(FileEvents(acc[i].commit)) = AcceptedIn(acc, acc[i].commit)
    /\ ~Iterate(DB, <<>>, 0).err
    /\ acc[i].body \in Elements(Iterate(DB, <<>>, 0).events)

\* C21 as stated: after any Writes and Rotates no accepted event has become
\* unreachable.
C21_AcceptedEventsReachable == AcceptedReachable

=============================================================================
